---------------------------- MODULE Spec2Model ----------------------------
(***************************************************************************)
(* strum: derived string conversion, iteration, messages and properties    *)
(* for enumerations (src/strum/src/lib.rs).                                *)
(*                                                                         *)
(* lib.rs declares the traits and ParseError and documents, with the code  *)
(* the derives generate, what each derive does.  The derive macros         *)
(* themselves (strum_macros) are not part of lib.rs: the annotation        *)
(* parser, the validation pass and the iterator are modelled from the      *)
(* specification, everything lib.rs shows or states is modelled from it.   *)
(*                                                                         *)
(* Strings are sequences of one-character strings, so that matching,       *)
(* length and integer parsing work on the characters.                      *)
(***************************************************************************)
EXTENDS Integers, Sequences, FiniteSets

VARIABLES batch,    \* the enumerations handed to the derives, as authored
          gen,      \* per enumeration: what generation produced
          out,      \* the last call of a generated function and its result
          cursors   \* the iterators obtained from iter()

vars == <<batch, gen, out, cursors>>

-----------------------------------------------------------------------------
(* Bounds *)

\* most annotation entries on the first variant of a generated enumeration
MaxAttrs == 2
\* usize payloads of the instances handed to the lookups range over 0..MaxField
MaxField == 1

-----------------------------------------------------------------------------
(* Strings *)

s_true == <<"t", "r", "u", "e">>
s_false == <<"f", "a", "l", "s", "e">>
s_Red == <<"R", "e", "d">>
s_Green == <<"G", "r", "e", "e", "n">>
s_Blue == <<"B", "l", "u", "e">>
s_Yellow == <<"Y", "e", "l", "l", "o", "w">>
s_White == <<"W", "h", "i", "t", "e">>
s_Black == <<"B", "l", "a", "c", "k">>
s_blue == <<"b", "l", "u", "e">>
s_b == <<"b">>
s_redred == <<"r", "e", "d", "r", "e", "d">>
s_0 == <<"0">>
s_255 == <<"2", "5", "5">>
s_201 == <<"2", "0", "1">>
s_103 == <<"1", "0", "3">>
s_230 == <<"2", ":", "3", "0">>
s_fn == <<"f", "n">>
s_open == <<"(">>
s_close == <<")">>
s_hello_world == <<"h", "e", "l", "l", "o", "_", "w", "o", "r", "l", "d">>
s_Function == <<"F", "u", "n", "c", "t", "i", "o", "n">>
s_OpenParen == <<"O", "p", "e", "n", "P", "a", "r", "e", "n">>
s_CloseParen == <<"C", "l", "o", "s", "e", "P", "a", "r", "e", "n">>
s_Ident == <<"I", "d", "e", "n", "t">>
s_Dog == <<"D", "o", "g">>
s_Cat == <<"C", "a", "t">>
s_History == <<"H", "i", "s", "t", "o", "r", "y">>
s_Mathematics == <<"M", "a", "t", "h", "e", "m", "a", "t", "i", "c", "s">>
s_Science == <<"S", "c", "i", "e", "n", "c", "e">>
s_Teacher == <<"T", "e", "a", "c", "h", "e", "r">>
s_Room == <<"R", "o", "o", "m">>
s_Time == <<"T", "i", "m", "e">>
s_MsFrizzle == <<"M", "s", ".", "F", "r", "i", "z", "z", "l", "e">>
s_MrSmith == <<"M", "r", ".", "S", "m", "i", "t", "h">>
s_NetworkError ==
    <<"N", "e", "t", "w", "o", "r", "k", "E", "r", "r", "o", "r">>
s_InvalidUserInputError ==
    <<"I", "n", "v", "a", "l", "i", "d", "U", "s", "e", "r", "I", "n", "p",
      "u", "t", "E", "r", "r", "o", "r">>
s_very_red ==
    <<"T", "h", "i", "s", " ", "i", "s", " ", "v", "e", "r", "y", " ", "r",
      "e", "d">>
s_Simply_Green ==
    <<"S", "i", "m", "p", "l", "y", " ", "G", "r", "e", "e", "n">>
s_network ==
    <<"A", " ", "n", "e", "t", "w", "o", "r", "k", " ", "e", "r", "r", "o",
      "r", " ", "o", "c", "c", "u", "r", "e", "d">>
s_connection ==
    <<"T", "r", "y", " ", "c", "h", "e", "c", "k", "i", "n", "g", " ", "y",
      "o", "u", "r", " ", "c", "o", "n", "n", "e", "c", "t", "i", "o", "n",
      ".">>
s_user_input ==
    <<"U", "s", "e", "r", " ", "i", "n", "p", "u", "t", " ", "e", "r", "r",
      "o", "r", ".">>
s_try_again ==
    <<"T", "h", "e", "r", "e", " ", "w", "a", "s", " ", "a", "n", " ", "e",
      "r", "r", "o", "r", " ", "p", "a", "r", "s", "i", "n", "g", " ", "u",
      "s", "e", "r", " ", "i", "n", "p", "u", "t", ".", " ", "P", "l", "e",
      "a", "s", "e", " ", "t", "r", "y", " ", "a", "g", "a", "i", "n", ".">>
s_have_dog == <<"I", " ", "h", "a", "v", "e", " ", "a", " ", "d", "o", "g">>
s_Spots ==
    <<"M", "y", " ", "d", "o", "g", "'", "s", " ", "n", "a", "m", "e", " ",
      "i", "s", " ", "S", "p", "o", "t", "s">>
s_no_cat ==
    <<"I", " ", "d", "o", "n", "'", "t", " ", "h", "a", "v", "e", " ", "a",
      " ", "c", "a", "t">>
s_A == <<"A">>
s_B == <<"B">>
s_C == <<"C">>
s_a == <<"a">>
s_bb == <<"b", "b">>
s_cc == <<"c", "c">>
s_X == <<"X">>
s_x == <<"x">>
s_D == <<"D">>
s_E == <<"E">>
s_m == <<"m">>
s_d == <<"d">>
s_k == <<"k">>
s_j == <<"j">>
s_z == <<"z">>
s_7 == <<"7">>
s_plus7 == <<"+", "7">>
s_12 == <<"1", "2">>
s_1x == <<"1", "x">>
s_bogus == <<"b", "o", "g", "u", "s">>

Range(s) == {s[i] : i \in DOMAIN s}

SeqsUpTo(S, n) == UNION {[1..k -> S] : k \in 0..n}

\* the other case of a letter the model's strings use; any other character as is
FlipChar(c) ==
    CASE c = "a" -> "A" [] c = "A" -> "a"
      [] c = "b" -> "B" [] c = "B" -> "b"
      [] c = "r" -> "R" [] c = "R" -> "r"
      [] c = "f" -> "F" [] c = "F" -> "f"
      [] c = "x" -> "X" [] c = "X" -> "x"
      [] c = "d" -> "D" [] c = "D" -> "d"
      [] c = "i" -> "I" [] c = "I" -> "i"
      [] OTHER -> c

\* s with the case of its first character changed
FlipCase(s) == IF s = <<>> THEN s ELSE <<FlipChar(s[1])>> \o Tail(s)

\* s followed by a blank
Pad(s) == s \o <<" ">>

-----------------------------------------------------------------------------
(* Values of an enumeration *)

\* a field value: a usize or a String
U(n) == [ty |-> "usize", n |-> n, s |-> <<>>]
S(s) == [ty |-> "String", n |-> 0, s |-> s]

\* Default::default() of a field type
DefaultVal(ty) == IF ty = "usize" THEN U(0) ELSE S(<<>>)

\* a value of the enumeration: the variant's tag and its field values
Inst(tag, fields) == [tag |-> tag, fields |-> fields]
NoInst == Inst(<<>>, <<>>)

\* the variant with every field at its default
DefaultInst(d) == Inst(d.name, [i \in DOMAIN d.fields |-> DefaultVal(d.fields[i])])

-----------------------------------------------------------------------------
(* Declarations as authored: #[strum(key="val")] and #[strum(props(k="v"))] *)

At(key, val) == [key |-> key, val |-> val, block |-> <<>>]
Props(block) == [key |-> "props", val |-> <<>>, block |-> block]

Variant(name, shape, fields, attrs) ==
    [name |-> name, shape |-> shape, fields |-> fields, attrs |-> attrs]

Enum(name, derives, variants) ==
    [name |-> name, derives |-> derives, variants |-> variants]

AllDerives == {"EnumString", "ToString", "EnumIter", "EnumMessage", "EnumProperty"}

\* the enumerations of lib.rs
ColorString ==
    Enum("Color", {"EnumString"},
         << Variant(s_Red, "Unit", <<>>, <<>>),
            Variant(s_Green, "Struct", <<"usize">>, <<>>),
            Variant(s_Blue, "Tuple", <<"usize">>,
                    <<At("serialize", s_blue), At("serialize", s_b)>>),
            Variant(s_Yellow, "Unit", <<>>, <<At("disabled", s_true)>>) >>)

ColorToString ==
    Enum("Color", {"ToString"},
         << Variant(s_Red, "Unit", <<>>, <<At("serialize", s_redred)>>),
            Variant(s_Green, "Struct", <<"usize">>, <<>>),
            Variant(s_Blue, "Tuple", <<"usize">>, <<>>),
            Variant(s_Yellow, "Unit", <<>>, <<>>) >>)

ColorIter ==
    Enum("Color", {"EnumIter"},
         << Variant(s_Red, "Unit", <<>>, <<>>),
            Variant(s_Green, "Struct", <<"usize">>, <<>>),
            Variant(s_Blue, "Tuple", <<"usize">>, <<>>),
            Variant(s_Yellow, "Unit", <<>>, <<>>) >>)

ColorMessage ==
    Enum("Color", {"EnumMessage"},
         << Variant(s_Red, "Unit", <<>>,
                    <<At("message", s_Red), At("detailed_message", s_very_red)>>),
            Variant(s_Green, "Struct", <<"usize">>, <<At("message", s_Simply_Green)>>),
            Variant(s_Blue, "Tuple", <<"usize">>,
                    <<At("serialize", s_b), At("serialize", s_blue)>>) >>)

ColorProperty ==
    Enum("Color", {"EnumProperty"},
         << Variant(s_White, "Unit", <<>>,
              <<Props(<< <<s_Red, s_255>>, <<s_Blue, s_255>>, <<s_Green, s_255>> >>)>>),
            Variant(s_Black, "Unit", <<>>,
              <<Props(<< <<s_Red, s_0>>, <<s_Blue, s_0>>, <<s_Green, s_0>> >>)>>),
            Variant(s_Blue, "Unit", <<>>,
              <<Props(<< <<s_Red, s_0>>, <<s_Blue, s_255>>, <<s_Green, s_0>> >>)>>),
            Variant(s_Red, "Unit", <<>>,
              <<Props(<< <<s_Red, s_255>>, <<s_Blue, s_0>>, <<s_Green, s_0>> >>)>>),
            Variant(s_Green, "Unit", <<>>,
              <<Props(<< <<s_Red, s_0>>, <<s_Blue, s_0>>, <<s_Green, s_255>> >>)>>) >>)

ServerError ==
    Enum("ServerError", {"EnumMessage"},
         << Variant(s_NetworkError, "Unit", <<>>,
                    <<At("message", s_network), At("detailed_message", s_connection)>>),
            Variant(s_InvalidUserInputError, "Unit", <<>>,
                    <<At("message", s_user_input), At("detailed_message", s_try_again)>>) >>)

Tokens ==
    Enum("Tokens", {"EnumString"},
         << Variant(s_Function, "Unit", <<>>, <<At("serialize", s_fn)>>),
            Variant(s_OpenParen, "Unit", <<>>, <<At("serialize", s_open)>>),
            Variant(s_CloseParen, "Unit", <<>>, <<At("serialize", s_close)>>),
            Variant(s_Ident, "Tuple", <<"String">>, <<At("default", s_true)>>) >>)

Pet ==
    Enum("Pet", {"EnumMessage"},
         << Variant(s_Dog, "Unit", <<>>,
                    <<At("message", s_have_dog), At("detailed_message", s_Spots)>>),
            Variant(s_Cat, "Unit", <<>>, <<At("message", s_no_cat)>>) >>)

Class ==
    Enum("Class", {"EnumProperty"},
         << Variant(s_History, "Unit", <<>>,
              <<Props(<< <<s_Teacher, s_MsFrizzle>>, <<s_Room, s_201>> >>)>>),
            Variant(s_Mathematics, "Unit", <<>>,
              <<Props(<< <<s_Teacher, s_MrSmith>> >>), Props(<< <<s_Room, s_103>> >>)>>),
            Variant(s_Science, "Unit", <<>>,
              <<Props(<< <<s_Time, s_230>> >>)>>) >>)

DocEnums ==
    {ColorString, ColorToString, ColorIter, ColorMessage, ColorProperty,
     ServerError, Tokens, Pet, Class}

-----------------------------------------------------------------------------
(* Annotation parser: one variant's entries to its descriptor *)

\* the values of the entries of one kind, in the order authored
AttrVals(attrs, key) ==
    LET sel == SelectSeq(attrs, LAMBDA e : e.key = key)
    IN  [i \in 1..Len(sel) |-> sel[i].val]

\* a flag is set by key="true"
Flag(attrs, key) == \E i \in DOMAIN attrs : attrs[i].key = key /\ attrs[i].val = s_true

\* repeated props(...) blocks merge additively, in the order authored
RECURSIVE MergeProps(_)
MergeProps(attrs) ==
    IF attrs = <<>> THEN <<>>
    ELSE (IF Head(attrs).key = "props" THEN Head(attrs).block ELSE <<>>)
         \o MergeProps(Tail(attrs))

Describe(v) ==
    [name |-> v.name, shape |-> v.shape, fields |-> v.fields,
     serialize |-> AttrVals(v.attrs, "serialize"),
     to_string |-> AttrVals(v.attrs, "to_string"),
     is_disabled |-> Flag(v.attrs, "disabled"),
     is_default |-> Flag(v.attrs, "default"),
     message |-> AttrVals(v.attrs, "message"),
     detailed_message |-> AttrVals(v.attrs, "detailed_message"),
     props |-> MergeProps(v.attrs)]

Table(decl) == [i \in DOMAIN decl.variants |-> Describe(decl.variants[i])]

\* serializations that never fall back to the variant's name
serializations_without_name(d) == d.serialize \o d.to_string

\* serializations that leave the to_string value out
serializations_without_to_string(d) ==
    IF d.serialize # <<>> THEN d.serialize
    ELSE IF d.to_string = <<>> THEN <<d.name>>
    ELSE <<>>

\* the strings a variant matches on parse: its serialize and to_string values,
\* and its own name when it has neither
serializations(d) ==
    LET a == d.serialize \o d.to_string
    IN  IF a = <<>> THEN <<d.name>> ELSE a

-----------------------------------------------------------------------------
(* Validation *)

RecognizedKeys ==
    {"serialize", "to_string", "default", "disabled", "message",
     "detailed_message", "props"}

\* the errors of one variant's entries
VariantErrors(v) ==
    LET d == Describe(v)
        unknown == \E i \in DOMAIN v.attrs : v.attrs[i].key \notin RecognizedKeys
        badFlag == \E i \in DOMAIN v.attrs :
                      /\ v.attrs[i].key \in {"default", "disabled"}
                      /\ v.attrs[i].val # s_true
        dupKey == \E i, j \in DOMAIN d.props :
                      i < j /\ d.props[i][1] = d.props[j][1]
        badDefault == /\ d.is_default
                      /\ ~ (d.shape = "Tuple" /\ d.fields = <<"String">>)
    IN  (IF unknown THEN {"UnknownAttribute"} ELSE {})
        \cup (IF badFlag THEN {"InvalidFlagValue"} ELSE {})
        \cup (IF dupKey THEN {"DuplicatePropertyKey"} ELSE {})
        \cup (IF badDefault THEN {"InvalidDefaultVariantShape"} ELSE {})

\* two non-disabled variants share a serialization
SharedSerialization(t) ==
    \E i, j \in DOMAIN t :
        /\ i < j
        /\ ~ t[i].is_disabled
        /\ ~ t[j].is_disabled
        /\ Range(serializations(t[i])) \cap Range(serializations(t[j])) # {}

\* the whole-enumeration pass, after every variant is parsed
GlobalErrors(decl) ==
    LET t == Table(decl)
        twoDefaults == \E i, j \in DOMAIN t :
                           i < j /\ t[i].is_default /\ t[j].is_default
        borrowed == /\ "EnumIter" \in decl.derives
                    /\ \E i \in DOMAIN t : "&str" \in Range(t[i].fields)
    IN  (IF SharedSerialization(t) THEN {"DuplicateSerialization"} ELSE {})
        \cup (IF twoDefaults THEN {"MultipleDefaultVariants"} ELSE {})
        \cup (IF borrowed THEN {"UnboundedLifetimeNotSupported"} ELSE {})

\* the specification orders no check before another: a failure carries every
\* kind detected
EnumErrors(decl) ==
    UNION {VariantErrors(decl.variants[i]) : i \in DOMAIN decl.variants}
    \cup GlobalErrors(decl)

Pending == [status |-> "pending", errors |-> {}, artifacts |-> {}, table |-> <<>>]

\* one enumeration's generation: every derived artifact, or none and the errors
Generate(decl) ==
    IF EnumErrors(decl) # {}
    THEN [status |-> "failed", errors |-> EnumErrors(decl),
          artifacts |-> {}, table |-> <<>>]
    ELSE [status |-> "generated", errors |-> {},
          artifacts |-> decl.derives, table |-> Table(decl)]

\* a derive's failure ends the batch: no enumeration keeps or gets artifacts
GenerateAbortsBatch(g, i, decl) ==
    IF EnumErrors(decl) # {}
    THEN [j \in DOMAIN g |-> IF j = i THEN Generate(decl)
                             ELSE [g[j] EXCEPT !.artifacts = {}]]
    ELSE [g EXCEPT ![i] = Generate(decl)]

\* generation of enumeration i of the batch leaves the others as they are
GenerateOne(g, i, decl) == [g EXCEPT ![i] = Generate(decl)]

-----------------------------------------------------------------------------
(* Results *)

Res(kind, inst, str, n, b) == [kind |-> kind, inst |-> inst, str |-> str, n |-> n, b |-> b]
ROk(inst) == Res("Ok", inst, <<>>, 0, FALSE)
RErr == Res("VariantNotFound", NoInst, <<>>, 0, FALSE)
RSome(str) == Res("Some", NoInst, str, 0, FALSE)
RSomeInt(n) == Res("SomeInt", NoInst, <<>>, n, FALSE)
RSomeBool(b) == Res("SomeBool", NoInst, <<>>, 0, b)
RNone == Res("None", NoInst, <<>>, 0, FALSE)
RString(str) == Res("String", NoInst, str, 0, FALSE)

\* the variant an instance is of
VariantOf(table, inst) ==
    table[CHOOSE i \in DOMAIN table : table[i].name = inst.tag]

-----------------------------------------------------------------------------
(* EnumString: the generated from_str *)

HasDefault(table) == \E i \in DOMAIN table : table[i].is_default

DefaultVariant(table) == table[CHOOSE i \in DOMAIN table : table[i].is_default]

\* the first arm at or after i one of whose patterns is s, 0 when there is none;
\* a disabled variant has no arm
RECURSIVE FirstMatch(_, _, _)
FirstMatch(table, s, i) ==
    IF i > Len(table) THEN 0
    ELSE IF ~ table[i].is_disabled /\ \E k \in DOMAIN serializations(table[i]) :
                                          serializations(table[i])[k] = s
         THEN i
         ELSE FirstMatch(table, s, i + 1)

\* as FirstMatch, with an arm for a disabled variant too
RECURSIVE FirstMatchAny(_, _, _)
FirstMatchAny(table, s, i) ==
    IF i > Len(table) THEN 0
    ELSE IF s \in Range(serializations(table[i])) THEN i
         ELSE FirstMatchAny(table, s, i + 1)

\* the last arm: default => Ok(Variant(default.into())), or _ => Err(VariantNotFound)
Fallthrough(table, s) ==
    IF HasDefault(table)
    THEN ROk(Inst(DefaultVariant(table).name, <<S(s)>>))
    ELSE RErr

\* from_str with disabled variants still matched
from_str_disabled_matched(table, s) ==
    IF FirstMatchAny(table, s, 1) # 0
    THEN ROk(DefaultInst(table[FirstMatchAny(table, s, 1)]))
    ELSE Fallthrough(table, s)

\* from_str whose default arm builds the variant from Default::default()
from_str_default_empty(table, s) ==
    IF FirstMatch(table, s, 1) # 0
    THEN ROk(DefaultInst(table[FirstMatch(table, s, 1)]))
    ELSE IF HasDefault(table) THEN ROk(DefaultInst(DefaultVariant(table))) ELSE RErr

from_str(table, s) ==
    IF FirstMatch(table, s, 1) # 0
    THEN ROk(DefaultInst(table[FirstMatch(table, s, 1)]))
    ELSE Fallthrough(table, s)

-----------------------------------------------------------------------------
(* ToString: the generated to_string *)

\* the longest of a non-empty sequence of strings; of several longest, the last
RECURSIVE Longest(_)
Longest(ss) ==
    IF Len(ss) = 1 THEN ss[1]
    ELSE LET r == Longest(Tail(ss))
         IN  IF Len(ss[1]) > Len(r) THEN ss[1] ELSE r

canonical_string(d) ==
    IF d.to_string # <<>> THEN d.to_string[1]
    ELSE IF d.serialize # <<>> THEN Longest(d.serialize)
    ELSE d.name

\* to_string that takes the first serialize value, and to_string only after it
to_string_first_serialize(table, inst) ==
    LET d == VariantOf(table, inst)
    IN  RString(IF d.serialize # <<>> THEN d.serialize[1]
                ELSE IF d.to_string # <<>> THEN d.to_string[1]
                ELSE d.name)

to_string(table, inst) == RString(canonical_string(VariantOf(table, inst)))

-----------------------------------------------------------------------------
(* EnumMessage: the generated get_message and get_detailed_message *)

get_message(table, inst) ==
    LET d == VariantOf(table, inst)
    IN  IF d.message # <<>> THEN RSome(d.message[1]) ELSE RNone

\* get_detailed_message without the fall back to message
get_detailed_message_own(table, inst) ==
    LET d == VariantOf(table, inst)
    IN  IF d.detailed_message # <<>> THEN RSome(d.detailed_message[1]) ELSE RNone

get_detailed_message(table, inst) ==
    LET d == VariantOf(table, inst)
    IN  IF d.detailed_message # <<>> THEN RSome(d.detailed_message[1])
        ELSE IF d.message # <<>> THEN RSome(d.message[1])
        ELSE RNone

-----------------------------------------------------------------------------
(* EnumProperty: the generated get_str, and the trait's get_int and get_bool *)

\* the inner match: the value of the first pair with the key
RECURSIVE Lookup(_, _)
Lookup(props, key) ==
    IF props = <<>> THEN RNone
    ELSE IF Head(props)[1] = key THEN RSome(Head(props)[2])
    ELSE Lookup(Tail(props), key)

\* every variant's pairs, in declaration order
RECURSIVE AllProps(_)
AllProps(table) ==
    IF table = <<>> THEN <<>> ELSE Head(table).props \o AllProps(Tail(table))

\* get_str that matches the key without matching the variant first
get_str_any_variant(table, inst, key) == Lookup(AllProps(table), key)

get_str(table, inst, key) == Lookup(VariantOf(table, inst).props, key)

\* str::parse::<usize>: an optional + and one or more decimal digits
Digits == <<"0", "1", "2", "3", "4", "5", "6", "7", "8", "9">>

DigitVal(c) == (CHOOSE i \in DOMAIN Digits : Digits[i] = c) - 1

RECURSIVE DecVal(_)
DecVal(s) == IF s = <<>> THEN 0 ELSE DecVal(SubSeq(s, 1, Len(s) - 1)) * 10 + DigitVal(s[Len(s)])

ParsesUsize(s) ==
    LET ds == IF s # <<>> /\ s[1] = "+" THEN Tail(s) ELSE s
    IN  ds # <<>> /\ \A i \in DOMAIN ds : ds[i] \in Range(Digits)

UsizeOf(s) == DecVal(IF s[1] = "+" THEN Tail(s) ELSE s)

\* get_int that reads get_str's table and parses the stored string
get_int_parsed(table, inst, key) ==
    LET r == get_str(table, inst, key)
    IN  IF r.kind = "Some" /\ ParsesUsize(r.str) THEN RSomeInt(UsizeOf(r.str)) ELSE RNone

\* get_bool that reads get_str's table and parses the stored string
get_bool_parsed(table, inst, key) ==
    LET r == get_str(table, inst, key)
    IN  IF r.kind = "Some" /\ r.str \in {s_true, s_false}
        THEN RSomeBool(r.str = s_true) ELSE RNone

get_int(table, inst, key) == RNone

get_bool(table, inst, key) == RNone

-----------------------------------------------------------------------------
(* The enumerations the derives are run on *)

\* an entry list a variant can carry: to_string, message and detailed_message
\* at most once each
WellFormed(attrs) ==
    \A key \in {"to_string", "message", "detailed_message"} :
        Len(AttrVals(attrs, key)) <= 1

AttrLists(entries) == {a \in SeqsUpTo(entries, MaxAttrs) : WellFormed(a)}

ConvEntries ==
    {At("serialize", s_a), At("serialize", s_bb), At("serialize", s_cc),
     At("to_string", s_X), At("disabled", s_true), At("default", s_true)}

MessageEntries ==
    {At("message", s_m), At("detailed_message", s_d), At("disabled", s_true)}

PropsEntries ==
    {Props(<< <<s_k, s_7>> >>), Props(<< <<s_k, s_1x>>, <<s_j, s_true>> >>),
     Props(<< <<s_j, s_plus7>> >>)}

Shapes == {<<"Unit", <<>>>>, <<"Tuple", <<"String">>>>, <<"Struct", <<"usize">>>>}

\* variants A (shape and entries given), B (unit, entries given) and C(usize)
Syn(shape, attrsA, attrsB) ==
    Enum("Syn", AllDerives,
         << Variant(s_A, shape[1], shape[2], attrsA),
            Variant(s_B, "Unit", <<>>, attrsB),
            Variant(s_C, "Tuple", <<"usize">>, <<>>) >>)

ConvEnums ==
    {Syn(sh, a, b) : sh \in Shapes, a \in AttrLists(ConvEntries),
                     b \in {<<>>, <<At("serialize", s_a)>>, <<At("to_string", s_bb)>>,
                            <<At("serialize", s_A)>>}}

MessageEnums ==
    {Syn(sh, a, <<At("message", s_d)>>) : sh \in Shapes, a \in AttrLists(MessageEntries)}

PropsEnums ==
    {Syn(<<"Struct", <<"usize">>>>, a, b) :
        a \in AttrLists(PropsEntries), b \in {<<>>, <<Props(<< <<s_z, s_12>> >>)>>}}

\* the validation scenario: two variants both declaring serialize="x"
DupEnum ==
    Enum("Dup", AllDerives,
         << Variant(s_A, "Unit", <<>>, <<At("serialize", s_x)>>),
            Variant(s_B, "Unit", <<>>, <<At("serialize", s_x)>>) >>)

TwoDefaultsEnum ==
    Enum("TwoDefaults", AllDerives,
         << Variant(s_A, "Tuple", <<"String">>, <<At("default", s_true)>>),
            Variant(s_B, "Tuple", <<"String">>, <<At("default", s_true)>>) >>)

UnknownKeyEnum ==
    Enum("UnknownKey", AllDerives,
         << Variant(s_A, "Unit", <<>>, <<At("bogus", s_x)>>),
            Variant(s_B, "Unit", <<>>, <<>>) >>)

BadFlagEnum ==
    Enum("BadFlag", AllDerives,
         << Variant(s_A, "Unit", <<>>, <<At("disabled", s_x)>>),
            Variant(s_B, "Unit", <<>>, <<>>) >>)

BorrowedEnum ==
    Enum("Borrowed", AllDerives,
         << Variant(s_A, "Tuple", <<"&str">>, <<>>),
            Variant(s_B, "Unit", <<>>, <<>>) >>)

ErrorEnums == {DupEnum, TwoDefaultsEnum, UnknownKeyEnum, BadFlagEnum, BorrowedEnum}

\* a batch is one enumeration, or two of which the second is one of a few
Partners == {Pet, Tokens, DupEnum}

Batches ==
    {<<e>> : e \in DocEnums \cup ErrorEnums \cup ConvEnums \cup MessageEnums \cup PropsEnums}
    \cup {<<e, p>> : e \in DocEnums \cup ErrorEnums, p \in Partners}

-----------------------------------------------------------------------------
(* Arguments of the calls *)

FieldVals(ty) ==
    IF ty = "usize" THEN {U(n) : n \in 0..MaxField} ELSE {S(<<>>), S(s_a)}

\* the values of the enumeration
Instances(table) ==
    UNION {{Inst(table[i].name, f) :
               f \in {g \in [DOMAIN table[i].fields ->
                              UNION {FieldVals(ty) : ty \in Range(table[i].fields)}] :
                         \A k \in DOMAIN g : g[k] \in FieldVals(table[i].fields[k])}} :
           i \in DOMAIN table}

\* every name and every serialize and to_string value of the enumeration
Authored(table) ==
    UNION {{table[i].name} \cup Range(table[i].serialize) \cup Range(table[i].to_string) :
           i \in DOMAIN table}

\* inputs of from_str: the authored strings, each also with its first letter in
\* the other case and with a trailing blank, the empty string and a stranger
Inputs(table) ==
    Authored(table)
    \cup {FlipCase(s) : s \in Authored(table)}
    \cup {Pad(s) : s \in Authored(table)}
    \cup {<<>>, s_hello_world}

\* keys of get_str: every key of the enumeration and a key of none
Keys(table) ==
    UNION {{table[i].props[k][1] : k \in DOMAIN table[i].props} : i \in DOMAIN table}
    \cup {s_bogus}

-----------------------------------------------------------------------------
(* State *)

Call(op, e, arg, inst, str, res) ==
    [op |-> op, e |-> e, arg |-> arg, inst |-> inst, str |-> str, res |-> res]

CursorIds == {"c1", "c2"}

NoCursor == [e |-> 0, idx |-> 0, yielded |-> <<>>, ended |-> FALSE]

Init ==
    /\ batch \in Batches
    /\ gen = [i \in DOMAIN batch |-> Pending]
    /\ out = Call("none", 0, <<>>, NoInst, <<>>, RNone)
    /\ cursors = [c \in CursorIds |-> NoCursor]

Has(i, derive) == derive \in gen[i].artifacts

\* the derives of enumeration i of the batch run
Derive(i) ==
    /\ gen[i].status = "pending"
    /\ gen' = GenerateOne(gen, i, batch[i])
    /\ UNCHANGED <<batch, out, cursors>>

FromStr(i, s) ==
    /\ Has(i, "EnumString")
    /\ out' = Call("from_str", i, s, NoInst, <<>>, from_str(gen[i].table, s))
    /\ UNCHANGED <<batch, gen, cursors>>

ToString(i, v) ==
    /\ Has(i, "ToString")
    /\ out' = Call("to_string", i, <<>>, v, <<>>, to_string(gen[i].table, v))
    /\ UNCHANGED <<batch, gen, cursors>>

\* Enum::from_str(&v.to_string())
RoundTrip(i, v) ==
    /\ Has(i, "ToString")
    /\ Has(i, "EnumString")
    /\ out' = Call("round_trip", i, <<>>, v, to_string(gen[i].table, v).str,
                   from_str(gen[i].table, to_string(gen[i].table, v).str))
    /\ UNCHANGED <<batch, gen, cursors>>

GetMessage(i, v) ==
    /\ Has(i, "EnumMessage")
    /\ out' = Call("get_message", i, <<>>, v, <<>>, get_message(gen[i].table, v))
    /\ UNCHANGED <<batch, gen, cursors>>

GetDetailedMessage(i, v) ==
    /\ Has(i, "EnumMessage")
    /\ out' = Call("get_detailed_message", i, <<>>, v, <<>>,
                   get_detailed_message(gen[i].table, v))
    /\ UNCHANGED <<batch, gen, cursors>>

GetStr(i, v, key) ==
    /\ Has(i, "EnumProperty")
    /\ out' = Call("get_str", i, key, v, <<>>, get_str(gen[i].table, v, key))
    /\ UNCHANGED <<batch, gen, cursors>>

GetInt(i, v, key) ==
    /\ Has(i, "EnumProperty")
    /\ out' = Call("get_int", i, key, v, <<>>, get_int(gen[i].table, v, key))
    /\ UNCHANGED <<batch, gen, cursors>>

GetBool(i, v, key) ==
    /\ Has(i, "EnumProperty")
    /\ out' = Call("get_bool", i, key, v, <<>>, get_bool(gen[i].table, v, key))
    /\ UNCHANGED <<batch, gen, cursors>>

Next ==
    \/ \E i \in DOMAIN batch : Derive(i)
    \/ \E i \in DOMAIN batch : \E s \in Inputs(gen[i].table) : FromStr(i, s)
    \/ \E i \in DOMAIN batch : \E v \in Instances(gen[i].table) : ToString(i, v)
    \/ \E i \in DOMAIN batch : \E v \in Instances(gen[i].table) : RoundTrip(i, v)
    \/ \E i \in DOMAIN batch : \E v \in Instances(gen[i].table) : GetMessage(i, v)
    \/ \E i \in DOMAIN batch : \E v \in Instances(gen[i].table) :
          GetDetailedMessage(i, v)
    \/ \E i \in DOMAIN batch : \E v \in Instances(gen[i].table) :
          \E key \in Keys(gen[i].table) : GetStr(i, v, key)
    \/ \E i \in DOMAIN batch : \E v \in Instances(gen[i].table) :
          \E key \in Keys(gen[i].table) : GetInt(i, v, key)
    \/ \E i \in DOMAIN batch : \E v \in Instances(gen[i].table) :
          \E key \in Keys(gen[i].table) : GetBool(i, v, key)

Spec == Init /\ [][Next]_vars

-----------------------------------------------------------------------------
(* EnumIter: iter() and the iterator's next() *)

\* most variants of an enumeration that is iterated
MaxVariants == 3

VariantNames == <<s_A, s_B, s_C, s_D, s_E>>

IterChoices ==
    {<<sh, a>> : sh \in Shapes, a \in {<<>>, <<At("disabled", s_true)>>}}

IterEnums ==
    {Enum("It", AllDerives,
          [k \in DOMAIN vs |-> Variant(VariantNames[k], vs[k][1][1], vs[k][1][2], vs[k][2])]) :
        vs \in SeqsUpTo(IterChoices, MaxVariants) \ {<<>>}}

\* a new cursor, before the first variant
iter(i) == [e |-> i, idx |-> 0, yielded |-> <<>>, ended |-> FALSE]

\* next() that passes over disabled variants
RECURSIVE next_skips_disabled(_, _)
next_skips_disabled(table, cur) ==
    IF cur.idx >= Len(table) THEN [cur EXCEPT !.ended = TRUE]
    ELSE IF table[cur.idx + 1].is_disabled
         THEN next_skips_disabled(table, [cur EXCEPT !.idx = @ + 1])
         ELSE [cur EXCEPT !.idx = @ + 1,
                          !.yielded = Append(@, DefaultInst(table[cur.idx + 1]))]

\* next(): the variant after the cursor with its fields at their defaults, or
\* None once every variant was yielded
next(table, cur) ==
    IF cur.idx >= Len(table) THEN [cur EXCEPT !.ended = TRUE]
    ELSE [cur EXCEPT !.idx = @ + 1,
                     !.yielded = Append(@, DefaultInst(table[cur.idx + 1]))]

\* advancing with the position kept once per enumeration: every cursor over
\* the enumeration moves to the position the advanced one reaches
advance_shared_position(cs, c, table) ==
    [d \in DOMAIN cs |->
        IF d = c THEN next(table, cs[c])
        ELSE IF cs[d].e = cs[c].e
             THEN [cs[d] EXCEPT !.idx = next(table, cs[c]).idx]
             ELSE cs[d]]

\* advancing cursor c: its own next(), the other cursors as they are
advance(cs, c, table) == [cs EXCEPT ![c] = next(table, cs[c])]

InitIter ==
    /\ batch \in {<<e>> : e \in IterEnums \cup {ColorIter, BorrowedEnum}}
    /\ gen = [i \in DOMAIN batch |-> Pending]
    /\ out = Call("none", 0, <<>>, NoInst, <<>>, RNone)
    /\ cursors = [c \in CursorIds |-> NoCursor]

Iter(c, i) ==
    /\ Has(i, "EnumIter")
    /\ cursors' = [cursors EXCEPT ![c] = iter(i)]
    /\ UNCHANGED <<batch, gen, out>>

IterNext(c) ==
    /\ cursors[c].e # 0
    /\ ~ cursors[c].ended
    /\ cursors' = advance(cursors, c, gen[cursors[c].e].table)
    /\ UNCHANGED <<batch, gen, out>>

NextIter ==
    \/ \E i \in DOMAIN batch : Derive(i)
    \/ \E c \in CursorIds, i \in DOMAIN batch : Iter(c, i)
    \/ \E c \in CursorIds : IterNext(c)

SpecIter == InitIter /\ [][NextIter]_vars

-----------------------------------------------------------------------------
(* What the claims are stated over: the declarations as authored *)

\* the variant of enumeration i with the tag
Authored_variant(i, tag) ==
    batch[i].variants[CHOOSE k \in DOMAIN batch[i].variants :
                          batch[i].variants[k].name = tag]

Disabled(v) == At("disabled", s_true) \in Range(v.attrs)

Defaulted(v) == At("default", s_true) \in Range(v.attrs)

\* the serialization set of a variant
SetOf(v) ==
    LET authored == Range(AttrVals(v.attrs, "serialize"))
                    \cup Range(AttrVals(v.attrs, "to_string"))
    IN  IF authored = {} THEN {v.name} ELSE authored

\* the variant with every field at its default value
AllDefaults(v) == Inst(v.name, [k \in DOMAIN v.fields |-> DefaultVal(v.fields[k])])

\* the pairs of every props(...) block of a variant
PairsOf(v) ==
    UNION {Range(v.attrs[k].block) : k \in {j \in DOMAIN v.attrs : v.attrs[j].key = "props"}}

-----------------------------------------------------------------------------
(* Claims *)

\* C1: in an enumeration with no default variant, from_str(s) is Ok of a variant
\* with every field at its default exactly when s is, character for character,
\* a member of the serialization set of that variant and the variant is not
\* disabled; for every other s it is Err(VariantNotFound).
C1_ParseExact ==
    (out.op = "from_str" /\ \A k \in DOMAIN batch[out.e].variants :
                                ~ Defaulted(batch[out.e].variants[k]))
    => LET vs == batch[out.e].variants
           hits == {k \in DOMAIN vs : ~ Disabled(vs[k]) /\ out.arg \in SetOf(vs[k])}
       IN  /\ \A k \in DOMAIN vs : (out.res = ROk(AllDefaults(vs[k]))) <=> (k \in hits)
           /\ (hits = {}) <=> (out.res = RErr)

\* C1 witness: the name of a disabled variant is refused
C1_Witness ==
    /\ out.op = "from_str"
    /\ \A k \in DOMAIN batch[out.e].variants : ~ Defaulted(batch[out.e].variants[k])
    /\ out.res = RErr
    /\ \E k \in DOMAIN batch[out.e].variants :
          /\ Disabled(batch[out.e].variants[k])
          /\ out.arg \in SetOf(batch[out.e].variants[k])

\* C2: in an enumeration with a default variant D, from_str never returns
\* Err(VariantNotFound), and for an input s that is in the serialization set of
\* no non-disabled variant it returns Ok(D(s)), the payload equal to s.
C2_DefaultCaptures ==
    (out.op = "from_str" /\ \E k \in DOMAIN batch[out.e].variants :
                                Defaulted(batch[out.e].variants[k]))
    => LET vs == batch[out.e].variants
           D == vs[CHOOSE k \in DOMAIN vs : Defaulted(vs[k])]
       IN  /\ out.res.kind = "Ok"
           /\ (\A k \in DOMAIN vs : Disabled(vs[k]) \/ out.arg \notin SetOf(vs[k]))
              => out.res = ROk(Inst(D.name, <<S(out.arg)>>))

\* C2 witness: a non-empty input that matches nothing comes back in the default variant
C2_Witness ==
    /\ out.op = "from_str"
    /\ out.arg = s_hello_world
    /\ out.res.kind = "Ok"
    /\ Defaulted(Authored_variant(out.e, out.res.inst.tag))
    /\ out.res.inst.fields = <<S(s_hello_world)>>

C4_NameRoundTrip ==
    (out.op = "round_trip" /\ Authored_variant(out.e, out.inst.tag).attrs = <<>>)
    => /\ out.str = out.inst.tag
       /\ out.res = ROk(AllDefaults(Authored_variant(out.e, out.inst.tag)))

\* C4 witness: a value whose field is not at its default comes back with the default
C4_Witness ==
    /\ out.op = "round_trip"
    /\ Authored_variant(out.e, out.inst.tag).attrs = <<>>
    /\ out.res.kind = "Ok"
    /\ out.res.inst.tag = out.inst.tag
    /\ out.res.inst # out.inst

\* C5: for a unit-style variant v that is not disabled, whatever serialize and
\* to_string annotations it carries, from_str(to_string(v)) is Ok(v).
C5_UnitRoundTrip ==
    (/\ out.op = "round_trip"
     /\ Authored_variant(out.e, out.inst.tag).shape = "Unit"
     /\ ~ Disabled(Authored_variant(out.e, out.inst.tag)))
    => out.res = ROk(out.inst)

\* C5 witness: a unit variant with a to_string and a serialize value makes the round trip
C5_Witness ==
    /\ out.op = "round_trip"
    /\ Authored_variant(out.e, out.inst.tag).shape = "Unit"
    /\ ~ Disabled(Authored_variant(out.e, out.inst.tag))
    /\ AttrVals(Authored_variant(out.e, out.inst.tag).attrs, "to_string") # <<>>
    /\ AttrVals(Authored_variant(out.e, out.inst.tag).attrs, "serialize") # <<>>
    /\ out.res = ROk(out.inst)

C8_PropertyLookup ==
    (out.op = "get_str")
    => LET pairs == PairsOf(Authored_variant(out.e, out.inst.tag))
       IN  /\ out.res.kind \in {"Some", "None"}
           /\ (out.res.kind = "Some") <=> (\E p \in pairs : p[1] = out.arg)
           /\ out.res.kind = "Some" => <<out.arg, out.res.str>> \in pairs
           /\ out.res.kind = "None" => out.res = RNone

\* C8 witness: a key of the second of two props(...) blocks is found
C8_Witness ==
    /\ out.op = "get_str"
    /\ out.res.kind = "Some"
    /\ \E k, l \in DOMAIN Authored_variant(out.e, out.inst.tag).attrs :
          /\ k < l
          /\ Authored_variant(out.e, out.inst.tag).attrs[k].key = "props"
          /\ <<out.arg, out.res.str>>
                \in Range(Authored_variant(out.e, out.inst.tag).attrs[l].block)

\* C9 as stated: get_int and get_bool read get_str's table and return the
\* stored string parsed, None when the key is absent or the string does not parse.
C9_TypedAccessorsParse ==
    /\ out.op = "get_int"
       => out.res = get_int_parsed(gen[out.e].table, out.inst, out.arg)
    /\ out.op = "get_bool"
       => out.res = get_bool_parsed(gen[out.e].table, out.inst, out.arg)

\* C9 as amended: get_int and get_bool return None for every variant and
\* every key, also for a key the variant has and whose string is an integer
\* or a boolean.
C9_TypedAccessorsNone ==
    out.op \in {"get_int", "get_bool"} => out.res = RNone

\* C9 witness: get_int of a key whose stored string is an integer
C9_Witness ==
    /\ out.op = "get_int"
    /\ get_str(gen[out.e].table, out.inst, out.arg).kind = "Some"
    /\ ParsesUsize(get_str(gen[out.e].table, out.inst, out.arg).str)

\* C10: when two non-disabled variants of an enumeration share a
\* serialization, its generation fails with DuplicateSerialization, it gets
\* no artifact and no generated function of it is ever called; every other
\* enumeration of the batch gets exactly the artifacts it derives, whether it
\* is generated before or after.
C10_DuplicateFailsAlone ==
    \A i \in DOMAIN batch :
        LET vs == batch[i].variants
            dup == \E k, l \in DOMAIN vs :
                      /\ k < l /\ ~ Disabled(vs[k]) /\ ~ Disabled(vs[l])
                      /\ SetOf(vs[k]) \cap SetOf(vs[l]) # {}
        IN  /\ (dup /\ gen[i].status # "pending")
               => /\ gen[i].status = "failed"
                  /\ "DuplicateSerialization" \in gen[i].errors
                  /\ gen[i].artifacts = {}
            /\ dup => out.e # i
            /\ (EnumErrors(batch[i]) = {} /\ gen[i].status # "pending")
               => /\ gen[i].status = "generated"
                  /\ gen[i].artifacts = batch[i].derives
                  /\ gen[i].table = Table(batch[i])

\* C10 witness: of a batch of two, one failed on its duplicate and the other was generated
C10_Witness ==
    \E i, j \in DOMAIN batch :
        /\ "DuplicateSerialization" \in gen[i].errors
        /\ gen[j].status = "generated"
        /\ gen[j].artifacts # {}

\* what one step may do to a cursor it changes: make it a new cursor before
\* the first variant, or move it past one more variant, or end it
Restarted(c) ==
    /\ cursors'[c].e \in DOMAIN batch
    /\ cursors'[c].idx = 0
    /\ cursors'[c].yielded = <<>>
    /\ ~ cursors'[c].ended

Advanced(c) ==
    /\ cursors'[c].e = cursors[c].e
    /\ \/ /\ cursors'[c].idx = cursors[c].idx + 1
          /\ Len(cursors'[c].yielded) = Len(cursors[c].yielded) + 1
          /\ SubSeq(cursors'[c].yielded, 1, Len(cursors[c].yielded)) = cursors[c].yielded
          /\ cursors'[c].ended = cursors[c].ended
       \/ /\ cursors'[c].idx = cursors[c].idx
          /\ cursors'[c].yielded = cursors[c].yielded
          /\ cursors'[c].ended

\* a cursor has yielded exactly the variants before its position, each once
\* and in declaration order, and has ended only past the last variant
YieldedInOrder(c) ==
    cursors[c].e # 0
    => LET vs == batch[cursors[c].e].variants
       IN  /\ cursors[c].idx <= Len(vs)
           /\ Len(cursors[c].yielded) = cursors[c].idx
           /\ \A k \in DOMAIN cursors[c].yielded : cursors[c].yielded[k].tag = vs[k].name
           /\ cursors[c].ended => cursors[c].idx = Len(vs)

\* C11: iter() gives a new cursor before the first variant, and cursors are
\* independent: a step that changes a cursor, by iter() or by next(), leaves
\* every other cursor as it was, under any interleaving; each cursor yields
\* the variants in declaration order, each exactly once.
C11_CursorsIndependent ==
    /\ [](\A c \in CursorIds : YieldedInOrder(c))
    /\ [][\A c \in CursorIds :
              /\ \A i \in DOMAIN batch :
                    Iter(c, i) => Restarted(c) /\ cursors'[c].e = i
              /\ cursors'[c] # cursors[c]
                 => /\ \A d \in CursorIds \ {c} : cursors'[d] = cursors[d]
                    /\ Restarted(c) \/ Advanced(c)]_vars

\* C11 witness: two cursors over the same enumeration, one ended after three
\* variants while the other has yielded only the first
C11_Witness ==
    /\ cursors["c1"].e # 0
    /\ cursors["c1"].e = cursors["c2"].e
    /\ cursors["c1"].ended
    /\ Len(cursors["c1"].yielded) = 3
    /\ cursors["c2"].idx = 1
    /\ ~ cursors["c2"].ended

=============================================================================
